---------------------------- MODULE Spec2Model ----------------------------
(***************************************************************************)
(* A model of SAM_demultiplex.py: the index table builder (get_indices),   *)
(* the matching engine (below_hamming_distance, best_index_match), the     *)
(* output router (open_output_files) and the record loop of main.          *)
(*                                                                         *)
(* Python strings are sequences of one-character strings, so that rstrip,  *)
(* split, replace, slicing, strip and sorted are computed character by     *)
(* character as the interpreter computes them.  A dict is a sequence of    *)
(* <<key, value>> pairs in insertion order.                                *)
(***************************************************************************)
EXTENDS Integers, Sequences, FiniteSets, TLC

VARIABLES
    \* get_indices(index_table, use_i5, use_i7)
    index_table,      \* the lines of the table file, each with its terminator
    table_pos,        \* number of table lines already iterated
    use_i5, use_i7,   \* the selectors
    indices,          \* dict: lookup key -> label
    stdout,           \* lines printed by get_indices
    \* main
    mismatch,         \* args.mismatch
    paired,           \* args.paired
    index_sequences,  \* sorted(indices.keys())
    output_files,     \* dict: destination key -> file handle (index into sinks)
    sinks,            \* the file objects opened for writing
    sam_file,         \* the lines of the SAM file
    sam_pos,          \* number of SAM lines already iterated
    history,          \* per iterated SAM line: what the loop body did with it
    pc,               \* position in main / get_indices
    error,            \* the uncaught exception that ended the run, or NoError
    \* best_index_match(index, list_of_indices, distance) called on its own
    m_index, m_list, m_distance, m_result, m_pc

vars == <<index_table, table_pos, use_i5, use_i7, indices, stdout, mismatch,
          paired, index_sequences, output_files, sinks, sam_file, sam_pos,
          history, pc, error, m_index, m_list, m_distance, m_result, m_pc>>

buildVars == <<index_table, table_pos, use_i5, use_i7, indices, stdout>>
mainVars == <<mismatch, paired, index_sequences, output_files, sinks,
              sam_file, sam_pos, history>>
matchVars == <<m_index, m_list, m_distance, m_result, m_pc>>

-----------------------------------------------------------------------------
(* Bounds of the model *)

MaxRows == 2
MaxRecords == 2
MatchKeyLen == 3
MaxCandidates == 2

(* Program constants *)

BarcodeLen == 8
MaxMismatch == 3
SamFields == 16

-----------------------------------------------------------------------------
(* Python string primitives *)

TAB == "\t"
NL == "\n"
Whitespace == {" ", "\t", "\n", "\r"}

\* Code points in ascending order, for the characters the inputs use.
CharOrder ==
    <<"\t", "\n", "\r", " ", "#", "*", "+", ".", "/",
      "0", "1", "2", "3", "4", "5", "6", "7", "8", "9", ":", "@",
      "A", "B", "C", "D", "E", "F", "G", "H", "I", "J", "K", "L", "M",
      "N", "O", "P", "Q", "R", "S", "T", "U", "V", "W", "X", "Y", "Z", "_",
      "a", "b", "c", "d", "e", "f", "g", "h", "i", "j", "k", "l", "m",
      "n", "o", "p", "q", "r", "s", "t", "u", "v", "w", "x", "y", "z">>

Ord(c) == CHOOSE i \in 1..Len(CharOrder) : CharOrder[i] = c

Min(a, b) == IF a < b THEN a ELSE b

\* s[:n]
Take(s, n) == SubSeq(s, 1, Min(n, Len(s)))

\* s.rstrip()
RECURSIVE RStrip(_)
RStrip(s) ==
    IF s = <<>> \/ s[Len(s)] \notin Whitespace
    THEN s
    ELSE RStrip(SubSeq(s, 1, Len(s) - 1))

RECURSIVE LStripChars(_, _)
LStripChars(s, chars) ==
    IF s = <<>> \/ s[1] \notin chars
    THEN s
    ELSE LStripChars(Tail(s), chars)

RECURSIVE RStripChars(_, _)
RStripChars(s, chars) ==
    IF s = <<>> \/ s[Len(s)] \notin chars
    THEN s
    ELSE RStripChars(SubSeq(s, 1, Len(s) - 1), chars)

\* s.strip(chars)
Strip(s, chars) == RStripChars(LStripChars(s, chars), chars)

RECURSIVE SplitAcc(_, _, _, _, _)
SplitAcc(s, sep, i, cur, acc) ==
    IF i > Len(s)
    THEN Append(acc, cur)
    ELSE IF s[i] = sep
         THEN SplitAcc(s, sep, i + 1, <<>>, Append(acc, cur))
         ELSE SplitAcc(s, sep, i + 1, Append(cur, s[i]), acc)

\* s.split(sep), sep a single character
Split(s, sep) == SplitAcc(s, sep, 1, <<>>, <<>>)

RECURSIVE ReplaceAcc(_, _, _, _)
ReplaceAcc(s, old, i, acc) ==
    IF i > Len(s)
    THEN acc
    ELSE IF i + Len(old) - 1 <= Len(s) /\ SubSeq(s, i, i + Len(old) - 1) = old
         THEN ReplaceAcc(s, old, i + Len(old), acc)
         ELSE ReplaceAcc(s, old, i + 1, Append(acc, s[i]))

\* s.replace(old, '')
Remove(s, old) == ReplaceAcc(s, old, 1, <<>>)

RECURSIVE JoinAcc(_, _, _)
JoinAcc(parts, sep, i) ==
    IF i > Len(parts)
    THEN <<>>
    ELSE IF i = Len(parts)
         THEN parts[i]
         ELSE parts[i] \o <<sep>> \o JoinAcc(parts, sep, i + 1)

\* sep.join(parts)
Join(parts, sep) == JoinAcc(parts, sep, 1)

\* a < b on str: by code point, a proper prefix first
RECURSIVE StrLess(_, _)
StrLess(a, b) ==
    IF b = <<>> THEN FALSE
    ELSE IF a = <<>> THEN TRUE
    ELSE IF a[1] = b[1] THEN StrLess(Tail(a), Tail(b))
    ELSE Ord(a[1]) < Ord(b[1])

\* sorted(S) for a set of distinct strings
RECURSIVE Sorted(_)
Sorted(S) ==
    IF S = {}
    THEN <<>>
    ELSE LET least == CHOOSE x \in S : \A y \in S \ {x} : StrLess(x, y)
         IN  <<least>> \o Sorted(S \ {least})

-----------------------------------------------------------------------------
(* Python dict: <<key, value>> pairs in insertion order *)

EmptyDict == <<>>

DictKeys(d) == {d[i][1] : i \in 1..Len(d)}

DictHas(d, k) == \E i \in 1..Len(d) : d[i][1] = k

DictGet(d, k) == d[CHOOSE i \in 1..Len(d) : d[i][1] = k][2]

\* d[k] = v: an existing key keeps its position
DictSet(d, k, v) ==
    IF DictHas(d, k)
    THEN [i \in 1..Len(d) |-> IF d[i][1] = k THEN <<k, v>> ELSE d[i]]
    ELSE Append(d, <<k, v>>)

-----------------------------------------------------------------------------
(* Exceptions *)

NoError == "none"

-----------------------------------------------------------------------------
(* below_hamming_distance and best_index_match *)

\* the sentinel of best_index_match: the str 'unassigned'
Unassigned == <<"u", "n", "a", "s", "s", "i", "g", "n", "e", "d">>

\* the for loop of below_hamming_distance, from position i with d mismatches
RECURSIVE HammingLoop(_, _, _, _, _)
HammingLoop(a, b, distance, i, d) ==
    IF i > Len(a)
    THEN TRUE
    ELSE LET d2 == d + (IF a[i] # b[i] THEN 1 ELSE 0)
         IN  IF d2 > distance
             THEN FALSE
             ELSE HammingLoop(a, b, distance, i + 1, d2)

\* [raised, value]: the assert raises when the lengths differ
below_hamming_distance(a, b, distance) ==
    IF Len(a) # Len(b)
    THEN [raised |-> "AssertionError", value |-> FALSE]
    ELSE IF a = b
         THEN [raised |-> NoError, value |-> TRUE]
         ELSE [raised |-> NoError, value |-> HammingLoop(a, b, distance, 1, 0)]

\* the for loop of best_index_match, from candidate i with the current match
RECURSIVE MatchLoop(_, _, _, _, _)
MatchLoop(index, list_of_indices, distance, i, match) ==
    IF i > Len(list_of_indices)
    THEN [raised |-> NoError, value |-> match]
    ELSE LET listed_index == list_of_indices[i]
             below == below_hamming_distance(index, listed_index, distance)
         IN  IF below.raised # NoError
             THEN [raised |-> below.raised, value |-> Unassigned]
             ELSE IF below.value
                  THEN IF match = Unassigned
                       THEN MatchLoop(index, list_of_indices, distance,
                                      i + 1, listed_index)
                       ELSE [raised |-> NoError, value |-> Unassigned]
                  ELSE MatchLoop(index, list_of_indices, distance, i + 1, match)

\* mutant: the distance == 0 early return is dropped
best_index_match_no_zero_return(index, list_of_indices, distance) ==
    MatchLoop(index, list_of_indices, distance, 1, Unassigned)

best_index_match(index, list_of_indices, distance) ==
    IF distance = 0
    THEN [raised |-> NoError, value |-> Unassigned]
    ELSE MatchLoop(index, list_of_indices, distance, 1, Unassigned)

-----------------------------------------------------------------------------
(* get_indices *)

ConfigMessage == "ERROR: cannot use neither index to demultiplex"

\* if len(ind) > 8: ind = ind[:8]
Truncate(ind) == IF Len(ind) > BarcodeLen THEN Take(ind, BarcodeLen) ELSE ind

\* the except: branch, label,ind = line.rstrip().split('\t'); indices[ind]=label
GetIndicesExcept(ind, fields, out) ==
    IF Len(fields) = 2
    THEN [indices |-> DictSet(ind, fields[2], fields[1]),
          raised |-> NoError, out |-> out]
    ELSE [indices |-> ind, raised |-> "ValueError", out |-> out]

\* the try: branch; any exception, SystemExit included, enters the except:
GetIndicesTry(ind, fields, u5, u7) ==
    IF Len(fields) # 3
    THEN GetIndicesExcept(ind, fields, <<>>)
    ELSE LET label == fields[1]
             ind_i5 == Truncate(fields[3])
             ind_i7 == Truncate(fields[2])
         IN  IF u5 /\ u7
             THEN [indices |-> DictSet(ind, ind_i5 \o <<"_">> \o ind_i7, label),
                   raised |-> NoError, out |-> <<>>]
             ELSE IF u5
             THEN [indices |-> DictSet(ind, ind_i5, label),
                   raised |-> NoError, out |-> <<>>]
             ELSE IF u7
             THEN [indices |-> DictSet(ind, ind_i7, label),
                   raised |-> NoError, out |-> <<>>]
             ELSE GetIndicesExcept(ind, fields, <<"False False", ConfigMessage>>)

\* one iteration of "for line in file"
GetIndicesStep(ind, line, u5, u7) ==
    IF Len(line) = 0 \/ line[1] = "#"
    THEN [indices |-> ind, raised |-> NoError, out |-> <<>>]
    ELSE GetIndicesTry(ind, Split(RStrip(line), TAB), u5, u7)

GetIndicesLine ==
    /\ pc = "get_indices"
    /\ table_pos < Len(index_table)
    /\ LET r == GetIndicesStep(indices, index_table[table_pos + 1], use_i5, use_i7)
       IN  /\ indices' = r.indices
           /\ stdout' = stdout \o r.out
           /\ error' = r.raised
           /\ pc' = IF r.raised = NoError THEN "get_indices" ELSE "error"
    /\ table_pos' = table_pos + 1
    /\ UNCHANGED <<index_table, use_i5, use_i7>>
    /\ UNCHANGED mainVars
    /\ UNCHANGED matchVars

\* return indices
GetIndicesReturn ==
    /\ pc = "get_indices"
    /\ table_pos = Len(index_table)
    /\ pc' = "returned"
    /\ UNCHANGED <<error>>
    /\ UNCHANGED buildVars
    /\ UNCHANGED mainVars
    /\ UNCHANGED matchVars

-----------------------------------------------------------------------------
(* Inputs *)

bcACGTACGT == <<"A", "C", "G", "T", "A", "C", "G", "T">>
bcACGTACGA == <<"A", "C", "G", "T", "A", "C", "G", "A">>
bcACGTACGC == <<"A", "C", "G", "T", "A", "C", "G", "C">>
bcCCGTACGT == <<"C", "C", "G", "T", "A", "C", "G", "T">>
bcGGGGGGGG == <<"G", "G", "G", "G", "G", "G", "G", "G">>
bcTTGGTTGG == <<"T", "T", "G", "G", "T", "T", "G", "G">>

TableRow(fields) == Join(fields, TAB) \o <<NL>>

Row3 == TableRow(<<<<"a">>, bcACGTACGT, bcTTGGTTGG>>)
Row3Near == TableRow(<<<<"b">>, bcACGTACGA, bcTTGGTTGG>>)
Row3Long == TableRow(<<<<"c">>, bcACGTACGT \o <<"A", "A">>, bcTTGGTTGG \o <<"C">>>>)
Row2 == TableRow(<<<<"d">>, bcACGTACGT>>)
Row2Long == TableRow(<<<<"e">>, bcACGTACGT \o <<"A", "A">>>>)
CommentRow == <<"#", "x", NL>>
EmptyRow == <<NL>>
Row1 == <<"f", NL>>

TableLines == {Row3, Row3Long, Row2, Row2Long, CommentRow, EmptyRow, Row1}

RECURSIVE SeqsUpTo(_, _)
SeqsUpTo(S, n) ==
    IF n = 0
    THEN {<<>>}
    ELSE LET shorter == SeqsUpTo(S, n - 1)
         IN  shorter \cup {Append(t, x) : t \in shorter, x \in S}

BuildTables == SeqsUpTo(TableLines, MaxRows)

IdleMain ==
    /\ mismatch = 0
    /\ paired = FALSE
    /\ index_sequences = <<>>
    /\ output_files = EmptyDict
    /\ sinks = <<>>
    /\ sam_file = <<>>
    /\ sam_pos = 0
    /\ history = <<>>

IdleMatch ==
    /\ m_index = <<>>
    /\ m_list = <<>>
    /\ m_distance = 0
    /\ m_result = <<>>
    /\ m_pc = "idle"

\* get_indices called with any selectors on any table
InitBuild ==
    /\ index_table \in BuildTables
    /\ table_pos = 0
    /\ use_i5 \in BOOLEAN
    /\ use_i7 \in BOOLEAN
    /\ indices = EmptyDict
    /\ stdout = <<>>
    /\ pc = "get_indices"
    /\ error = NoError
    /\ IdleMain
    /\ IdleMatch

NextBuild == GetIndicesLine \/ GetIndicesReturn

SpecBuild == InitBuild /\ [][NextBuild]_vars

-----------------------------------------------------------------------------
(* best_index_match on its own: the inputs are drawn, the call returns *)

MatchAlphabet == {"A", "C"}

\* every key of length MatchKeyLen over the alphabet
AlphabetKeys == {Take(k, MatchKeyLen) : k \in [1..MatchKeyLen -> MatchAlphabet]}

Unassignee == <<"u", "n", "a", "s", "s", "i", "g", "n", "e", "e">>

\* keys of the sentinel's own length, the sentinel's text among them
SentinelKeys == {Unassigned, Unassignee}

\* sorted lists of at most MaxCandidates distinct keys of U
CandidateLists(U) ==
    {Sorted(S) : S \in {T \in SUBSET U : Cardinality(T) <= MaxCandidates}}

InitMatch ==
    /\ \E U \in {AlphabetKeys, SentinelKeys} :
          /\ m_index \in U
          /\ m_list \in CandidateLists(U)
    /\ m_distance \in 0..MaxMismatch
    /\ m_result = <<>>
    /\ m_pc = "call"
    /\ index_table = <<>>
    /\ table_pos = 0
    /\ use_i5 = TRUE
    /\ use_i7 = TRUE
    /\ indices = EmptyDict
    /\ stdout = <<>>
    /\ pc = "idle"
    /\ error = NoError
    /\ IdleMain

MatchCall ==
    /\ m_pc = "call"
    /\ LET r == best_index_match(m_index, m_list, m_distance)
       IN  /\ m_result' = r.value
           /\ error' = r.raised
    /\ m_pc' = "returned"
    /\ UNCHANGED <<m_index, m_list, m_distance, pc>>
    /\ UNCHANGED buildVars
    /\ UNCHANGED mainVars

NextMatch == MatchCall

SpecMatch == InitMatch /\ [][NextMatch]_vars

-----------------------------------------------------------------------------
(* open_output_files *)

ExtSingle == <<".", "f", "a", "s", "t", "q">>
ExtMate1 == <<".", "1", ".", "f", "a", "s", "t", "q">>
ExtMate2 == <<".", "2", ".", "f", "a", "s", "t", "q">>
Suffix1 == <<"/", "1">>
Suffix2 == <<"/", "2">>

\* open(path, 'w'): a new, empty, open file object
OpenFile(path) ==
    [path |-> path, content |-> <<>>, closed |-> FALSE, close_calls |-> 0]

\* the loop "for k,v in index_dict.items()", from item i
RECURSIVE OpenLoop(_, _, _, _)
OpenLoop(index_dict, is_paired, i, st) ==
    IF i > Len(index_dict)
    THEN st
    ELSE LET k == index_dict[i][1]
             v == index_dict[i][2]
             n == Len(st.sinks)
         IN  IF is_paired
             THEN OpenLoop(index_dict, is_paired, i + 1,
                    [output_files |->
                        DictSet(DictSet(st.output_files, k \o Suffix1, n + 1),
                                k \o Suffix2, n + 2),
                     sinks |-> st.sinks \o <<OpenFile(v \o ExtMate1),
                                             OpenFile(v \o ExtMate2)>>])
             ELSE OpenLoop(index_dict, is_paired, i + 1,
                    [output_files |-> DictSet(st.output_files, k, n + 1),
                     sinks |-> Append(st.sinks, OpenFile(v \o ExtSingle))])

open_output_files(index_dict, is_paired) ==
    OpenLoop(index_dict, is_paired, 1,
        [output_files |-> DictSet(EmptyDict, Unassigned, 1),
         sinks |-> <<OpenFile(Unassigned \o ExtSingle)>>])

\* main: sorted(indices.keys()), open_output_files, open(args.sam)
OpenOutputFiles ==
    /\ pc = "returned"
    /\ index_sequences' = Sorted(DictKeys(indices))
    /\ LET st == open_output_files(indices, paired)
       IN  /\ output_files' = st.output_files
           /\ sinks' = st.sinks
    /\ pc' = "read_sam"
    /\ UNCHANGED <<mismatch, paired, sam_file, sam_pos, history, error>>
    /\ UNCHANGED buildVars
    /\ UNCHANGED matchVars

-----------------------------------------------------------------------------
(* The record loop of main *)

Flag4 == <<"4">>
Flag77 == <<"7", "7">>
Flag141 == <<"1", "4", "1">>

\* mutant: the two mate suffixes are exchanged
FlagsSwapped == <<<<Flag4, <<>>>>, <<Flag77, Suffix2>>, <<Flag141, Suffix1>>>>

\* flags = {'4':'', '77':'/1', '141':'/2'}
Flags == <<<<Flag4, <<>>>>, <<Flag77, Suffix1>>, <<Flag141, Suffix2>>>>

TagI5 == <<"B", "2", ":", "Z", ":">>
TagI7 == <<"B", "C", ":", "Z", ":">>

\* ind.replace(tag,'')[:8]
ObservedBarcode(field, tag) == Take(Remove(field, tag), BarcodeLen)

\* (['',ind_i5][use_i5]+'_'+['',ind_i7][use_i7]).strip('_')
LineIndex(ind_i5, ind_i7, u5, u7) ==
    Strip((IF u5 THEN ind_i5 ELSE <<>>) \o <<"_">> \o (IF u7 THEN ind_i7 ELSE <<>>),
          {"_"})

\* '\n'.join(['@'+qname+flags[flag],seq,'+',qual])+'\n'
FastqText(qname, suffix, seq, qual) ==
    Join(<<<<"@">> \o qname \o suffix, seq, <<"+">>, qual>>, NL) \o <<NL>>

Skipped == [kind |-> "header", raised |-> NoError, key |-> <<>>,
            text |-> <<>>, engine |-> FALSE]

Raised(exc, engine) == [kind |-> "raised", raised |-> exc, key |-> <<>>,
                        text |-> <<>>, engine |-> engine]

\* output_files[key].write(text), with flags[flag] evaluated first
WriteTo(files, stem, fields, engine, to_unassigned) ==
    LET flag == fields[2]
    IN  IF ~DictHas(Flags, flag)
        THEN Raised("KeyError", engine)
        ELSE LET suffix == DictGet(Flags, flag)
                 key == IF to_unassigned THEN Unassigned ELSE stem \o suffix
             IN  IF ~DictHas(files, key)
                 THEN Raised("KeyError", engine)
                 ELSE [kind |-> "written", raised |-> NoError, key |-> key,
                       text |-> FastqText(fields[1], suffix, fields[10], fields[11]),
                       engine |-> engine]

\* the body of "for line in sam_file"
SamBody(line, ind, seqs, files, u5, u7, mm) ==
    IF line[1] = "@"
    THEN Skipped
    ELSE LET fields == Split(RStrip(line), TAB)
         IN  IF Len(fields) # SamFields
             THEN Raised("ValueError", FALSE)
             ELSE LET ind_i5 == ObservedBarcode(fields[12], TagI5)
                      ind_i7 == ObservedBarcode(fields[14], TagI7)
                      line_index == LineIndex(ind_i5, ind_i7, u5, u7)
                  IN  IF DictHas(ind, line_index)
                      THEN WriteTo(files, line_index, fields, FALSE, FALSE)
                      ELSE LET match == best_index_match(line_index, seqs, mm)
                           IN  IF match.raised # NoError
                               THEN Raised(match.raised, TRUE)
                               ELSE IF match.value = Unassigned
                                    THEN WriteTo(files, <<>>, fields, TRUE, TRUE)
                                    ELSE WriteTo(files, match.value, fields,
                                                 TRUE, FALSE)

ProcessSamLine ==
    /\ pc = "read_sam"
    /\ sam_pos < Len(sam_file)
    /\ LET r == SamBody(sam_file[sam_pos + 1], indices, index_sequences,
                        output_files, use_i5, use_i7, mismatch)
           h == IF r.kind = "written" THEN DictGet(output_files, r.key) ELSE 0
       IN  /\ sinks' = IF r.kind = "written"
                       THEN [sinks EXCEPT ![h].content = Append(@, r.text)]
                       ELSE sinks
           /\ history' = Append(history,
                            [kind |-> r.kind, key |-> r.key, handle |-> h,
                             text |-> r.text, engine |-> r.engine])
           /\ error' = r.raised
           /\ pc' = IF r.raised = NoError THEN "read_sam" ELSE "error"
    /\ sam_pos' = sam_pos + 1
    /\ UNCHANGED <<mismatch, paired, index_sequences, output_files, sam_file>>
    /\ UNCHANGED buildVars
    /\ UNCHANGED matchVars

\* f.close()
CloseFile(f) == [f EXCEPT !.closed = TRUE, !.close_calls = @ + 1]

\* the loop "for i in indices.keys()" at the end of main, from key i
RECURSIVE CloseLoop(_, _, _, _, _)
CloseLoop(ind, files, is_paired, i, ss) ==
    IF i > Len(ind)
    THEN ss
    ELSE LET k == ind[i][1]
         IN  IF is_paired
             THEN LET h1 == DictGet(files, k \o Suffix1)
                      h2 == DictGet(files, k \o Suffix2)
                      s1 == [ss EXCEPT ![h1] = CloseFile(@)]
                  IN  CloseLoop(ind, files, is_paired, i + 1,
                                [s1 EXCEPT ![h2] = CloseFile(@)])
             ELSE LET h == DictGet(files, k)
                  IN  CloseLoop(ind, files, is_paired, i + 1,
                                [ss EXCEPT ![h] = CloseFile(@)])

\* the input is exhausted: the closing loop runs and main returns
CloseOutputFiles ==
    /\ pc = "read_sam"
    /\ sam_pos = Len(sam_file)
    /\ sinks' = CloseLoop(indices, output_files, paired, 1, sinks)
    /\ pc' = "done"
    /\ UNCHANGED <<mismatch, paired, index_sequences, output_files, sam_file,
                   sam_pos, history, error>>
    /\ UNCHANGED buildVars
    /\ UNCHANGED matchVars

-----------------------------------------------------------------------------
(* Inputs of main *)

Row3NoNL == Join(<<<<"g">>, bcGGGGGGGG, bcTTGGTTGG>>, TAB)

MainTables == {<<CommentRow, Row3, Row3Near>>, <<Row2, Row3NoNL>>}

\* a 16-field SAM record
SamLine(qname, flag, i5, i7) ==
    Join(<<qname, flag, <<"*">>, <<"0">>, <<"0">>, <<"*">>, <<"*">>, <<"0">>,
           <<"0">>, <<"G">>, <<"I">>, TagI5 \o i5, <<"x">>, TagI7 \o i7,
           <<"x">>, <<"x">>>>, TAB) \o <<NL>>

HeaderLine == <<"@", "H", "D", NL>>
RecExact77 == SamLine(<<"q">>, Flag77, bcTTGGTTGG \o <<"A">>, bcACGTACGT \o <<"C">>)
RecExact141 == SamLine(<<"q">>, Flag141, bcTTGGTTGG, bcACGTACGT)
RecNear77 == SamLine(<<"r">>, Flag77, bcTTGGTTGG, bcCCGTACGT)
RecAmbig4 == SamLine(<<"s">>, Flag4, bcTTGGTTGG, bcACGTACGC)
RecFar141 == SamLine(<<"t">>, Flag141, bcGGGGGGGG, bcGGGGGGGG)
RecBadFlag == SamLine(<<"u">>, <<"9", "9">>, bcTTGGTTGG, bcACGTACGT)

SamLines == {HeaderLine, RecExact77, RecExact141, RecNear77,
             RecAmbig4, RecFar141, RecBadFlag}

SamFiles == SeqsUpTo(SamLines, MaxRecords)

IndexChoices == {"i5", "i7", "both"}

\* main after get_arguments: argparse admits only these option values
Init ==
    /\ index_table \in MainTables
    /\ table_pos = 0
    /\ \E sel \in IndexChoices :
          /\ use_i5 = (sel \in {"i5", "both"})
          /\ use_i7 = (sel \in {"i7", "both"})
    /\ indices = EmptyDict
    /\ stdout = <<>>
    /\ mismatch \in 0..MaxMismatch
    /\ paired \in BOOLEAN
    /\ index_sequences = <<>>
    /\ output_files = EmptyDict
    /\ sinks = <<>>
    /\ sam_file \in SamFiles
    /\ sam_pos = 0
    /\ history = <<>>
    /\ pc = "get_indices"
    /\ error = NoError
    /\ IdleMatch

Next ==
    \/ GetIndicesLine
    \/ GetIndicesReturn
    \/ OpenOutputFiles
    \/ ProcessSamLine
    \/ CloseOutputFiles

Spec == Init /\ [][Next]_vars

-----------------------------------------------------------------------------
(* What the claims speak of *)

Range(s) == {s[i] : i \in 1..Len(s)}

\* the number of positions at which two strings of one length differ
HammingDistance(a, b) == Cardinality({i \in 1..Len(a) : a[i] # b[i]})

\* the positions of the candidates within distance d of index
WithinDistance(index, list, d) ==
    {i \in 1..Len(list) : HammingDistance(index, list[i]) <= d}

\* the result the matching contract asks for
ContractMatch(index, list, d) ==
    LET W == WithinDistance(index, list, d)
    IN  IF Cardinality(W) = 1 THEN list[CHOOSE i \in W : TRUE] ELSE Unassigned

RecognizedFlags == {Flag4, Flag77, Flag141}

IsData(i) == sam_file[i][1] # "@"

RecordFields(i) == Split(RStrip(sam_file[i]), TAB)

FlagOf(i) == RecordFields(i)[2]

QnameOf(i) == RecordFields(i)[1]

\* the observed key of SAM line i under the active selectors
ObservedKey(i) ==
    LineIndex(ObservedBarcode(RecordFields(i)[12], TagI5),
              ObservedBarcode(RecordFields(i)[14], TagI7), use_i5, use_i7)

RECURSIVE TotalWritten(_, _)
TotalWritten(ss, h) ==
    IF h > Len(ss) THEN 0 ELSE Len(ss[h].content) + TotalWritten(ss, h + 1)

\* a table row without its line terminator
RowText(line) ==
    IF line # <<>> /\ line[Len(line)] = NL
    THEN SubSeq(line, 1, Len(line) - 1)
    ELSE line

IsBlankOrComment(line) == RowText(line) = <<>> \/ RowText(line)[1] = "#"

-----------------------------------------------------------------------------
(* Claims *)

\* C1: for max_distance >= 1, best_index_match returns candidate k iff k is
\* the only candidate within Hamming distance max_distance of the observed
\* key; with no such candidate, or with two or more, it returns 'unassigned'.
C1_BestMatchIffUniqueWithin ==
    (m_pc = "returned" /\ m_distance >= 1)
        => m_result = ContractMatch(m_index, m_list, m_distance)

\* The statement of C1 restricted to candidate lists that do not hold the
\* text of the sentinel itself; this much holds.
BestMatchIffUniqueWithinOffSentinel ==
    (m_pc = "returned" /\ m_distance >= 1 /\ Unassigned \notin Range(m_list))
        => m_result = ContractMatch(m_index, m_list, m_distance)

C3_ExactKeyRouted ==
    \A i \in 1..Len(history) :
        (IsData(i) /\ DictHas(indices, ObservedKey(i)))
            => /\ history[i].kind = "written"
               /\ ~history[i].engine
               /\ Take(history[i].key, Len(ObservedKey(i))) = ObservedKey(i)
               /\ LET label == DictGet(indices, ObservedKey(i))
                  IN  Take(sinks[history[i].handle].path, Len(label)) = label

\* C4: every processed record whose flag is none of 4, 77, 141 has been
\* written to the 'unassigned' destination, and the run has not aborted on it.
C4_UnrecognizedFlagUnassigned ==
    \A i \in 1..Len(history) :
        (IsData(i) /\ FlagOf(i) \notin RecognizedFlags)
            => /\ history[i].kind = "written"
               /\ history[i].key = Unassigned
               /\ error = NoError

\* C5: at normal run end every opened sink, the 'unassigned' one included,
\* has been closed exactly once.
C5_AllSinksClosedOnce ==
    pc = "done"
        => \A h \in 1..Len(sinks) : sinks[h].closed /\ sinks[h].close_calls = 1

\* C6: in paired mode a mate-1 record (flag 77) that resolves to a sample is
\* written only to that sample's mate-1 destination and a mate-2 record
\* (flag 141) only to its mate-2 destination; the sample is the one of the
\* observed key when that is a key of the lookup, else one within the
\* mismatch tolerance.
C6_MatesNeverCross ==
    paired =>
        \A i \in 1..Len(history) :
            (/\ history[i].kind = "written"
             /\ history[i].key # Unassigned
             /\ FlagOf(i) \in {Flag77, Flag141})
                => LET mate1 == FlagOf(i) = Flag77
                       suffix == IF mate1 THEN Suffix1 ELSE Suffix2
                       ext == IF mate1 THEN ExtMate1 ELSE ExtMate2
                       obs == ObservedKey(i)
                       sink == sinks[history[i].handle]
                   IN  /\ \E k \in DictKeys(indices) :
                             /\ history[i].key = k \o suffix
                             /\ sink.path = DictGet(indices, k) \o ext
                             /\ IF DictHas(indices, obs)
                                THEN k = obs
                                ELSE /\ Len(k) = Len(obs)
                                     /\ HammingDistance(k, obs) <= mismatch
                       /\ history[i].text =
                             FastqText(QnameOf(i), suffix, RecordFields(i)[10],
                                       RecordFields(i)[11])
                       /\ history[i].text \in Range(sink.content)

\* C6 witness: a paired run has written a mate-1 and a mate-2 record of one
\* query name and one barcode to two different sinks of one sample.
C6_Witness ==
    /\ paired
    /\ pc = "done"
    /\ \E i, j \in 1..Len(history) :
          /\ IsData(i)
          /\ IsData(j)
          /\ FlagOf(i) = Flag77
          /\ FlagOf(j) = Flag141
          /\ QnameOf(i) = QnameOf(j)
          /\ ObservedKey(i) = ObservedKey(j)
          /\ history[i].kind = "written"
          /\ history[j].kind = "written"
          /\ history[i].key # Unassigned
          /\ history[j].key # Unassigned
          /\ history[i].handle # history[j].handle

\* C7: get_indices called with both selectors false never returns a lookup:
\* it ends in an error, having reported the configuration error.
C7_BothDisabledFails ==
    (~use_i5 /\ ~use_i7 /\ pc \in {"returned", "error"})
        => (pc = "error" /\ ConfigMessage \in Range(stdout))

\* C8: a table row that is empty or starts with '#' is skipped: iterating it
\* raises no error and leaves the lookup as it was.
C8_BlankAndCommentRowsSkipped ==
    [][(/\ pc = "get_indices"
        /\ table_pos < Len(index_table)
        /\ IsBlankOrComment(index_table[table_pos + 1]))
           => (pc' = "get_indices" /\ error' = NoError /\ indices' = indices)]_vars

\* C9: every key of the lookup consists of barcode components of at most 8
\* characters, for 3-field and 2-field rows alike.
C9_KeyComponentsAtMost8 ==
    \A k \in DictKeys(indices) :
        \A part \in Range(Split(k, "_")) : Len(part) <= BarcodeLen

\* C10: when every data record of the input carries a recognized flag, then
\* after any prefix of the input each processed data record has been written
\* exactly once to exactly one sink, header lines have produced no write, and
\* the number of records written over all sinks is the number of data records
\* processed.
C10_EachRecordWrittenOnce ==
    (/\ \A i \in 1..Len(sam_file) : IsData(i) => FlagOf(i) \in RecognizedFlags
     /\ sam_pos > 0)
        => /\ error = NoError
           /\ Len(history) = sam_pos
           /\ \A i \in 1..sam_pos :
                 IF IsData(i)
                 THEN /\ history[i].kind = "written"
                      /\ history[i].text \in Range(sinks[history[i].handle].content)
                 ELSE history[i].kind = "header"
           /\ TotalWritten(sinks, 1) = Cardinality({i \in 1..sam_pos : IsData(i)})

=============================================================================
